---------------------------- MODULE Spec2Model ----------------------------
(***************************************************************************)
(* Pong (src/script.js): the game state of the closure, its frame loop     *)
(* (requestAnimationFrame), its input handlers and the two console entry   *)
(* points window.__pong.resetBall / window.__pong.start.                   *)
(*                                                                         *)
(* Numbers.  The program computes with JS doubles.  Every length and       *)
(* velocity is held here as an integer count of 1/SCALE pixels, so that    *)
(* the program's fractional constants (0.35, 0.8, 2.5) are exact.          *)
(* Math.cos / Math.sin are a table of whole degrees scaled by TRIG, and a  *)
(* product with a table entry is rounded to the nearest unit.              *)
(*                                                                         *)
(* draw() and roundedRect() only read the state and are not modelled.      *)
(***************************************************************************)
EXTENDS Integers, Sequences, FiniteSets, TLC

----------------------------------------------------------------------------
(* Fixed-point resolution *)

SCALE == 20
TRIG == 10000

PX(n) == n * SCALE
FX(num, den) == (num * SCALE) \div den

----------------------------------------------------------------------------
(* Program constants *)

\* canvas.width / canvas.height: set by the page, not by the script
WIDTH == 200
HEIGHT == 150

WIN_SCORE == 10
PADDLE_WIDTH == 12
PADDLE_HEIGHT == 90
PADDLE_SPEED == 12
LEFT_X == 20
RIGHT_MARGIN == 20
MAX_SPEED == 10
RADIUS == 9
BASE_SPEED == 9
SPEED_CAP_POINTS == 12
MAX_ANGLE == 60

SpeedPerPoint == FX(35, 100)
speedIncrease == FX(8, 10)
minHorizontal == FX(25, 10)

RightX == PX(WIDTH - PADDLE_WIDTH - RIGHT_MARGIN)
CenterX == PX(WIDTH) \div 2
CenterY == PX(HEIGHT) \div 2
PaddleMaxY == PX(HEIGHT) - PX(PADDLE_HEIGHT)
HalfPaddle == PX(PADDLE_HEIGHT) \div 2

WinText == "You win! Refresh the page to play again."
LoseText == "Computer wins. Refresh to try again."

----------------------------------------------------------------------------
(* Bounds of the exploration *)

\* requestAnimationFrame callbacks that may be pending at once
MaxPending == 2
\* simulation steps explored under Spec (MatchSpec plays whole matches)
MaxSteps == 10

\* Math.random() * 90 - 45 lies in [-45, 45)
AngleChoices == {-45, 40}
\* Math.random() < 0.5 ? -1 : 1
DirChoices == {-1, 1}
\* e.clientY of a mouse or touch event, in CSS pixels, far out of range included
ClientYs == {-100000, 75, 100000}
\* canvas.getBoundingClientRect(): top and height in CSS pixels
RectTops == {10}
RectHeights == {HEIGHT, 2 * HEIGHT}
KeyCodes == {"ArrowUp", "ArrowDown", "Space", "KeyA"}

----------------------------------------------------------------------------
(* Arithmetic *)

Abs(n) == IF n < 0 THEN -n ELSE n
Sign(n) == IF n > 0 THEN 1 ELSE IF n < 0 THEN -1 ELSE 0
Max(a, b) == IF a >= b THEN a ELSE b
Min(a, b) == IF a <= b THEN a ELSE b

\* a / b rounded to the nearest integer, halves away from zero (b > 0)
RDiv(a, b) == IF a >= 0 THEN (2 * a + b) \div (2 * b)
              ELSE -((2 * (-a) + b) \div (2 * b))

RECURSIVE SqrtIn(_, _, _)
SqrtIn(n, lo, hi) ==
    IF lo >= hi THEN lo
    ELSE LET mid == (lo + hi + 1) \div 2
         IN  IF mid * mid <= n THEN SqrtIn(n, mid, hi) ELSE SqrtIn(n, lo, mid - 1)

\* Math.hypot(a, b), to the nearest unit
Hypot(a, b) == LET n == a * a + b * b
                   r == SqrtIn(n, 0, Abs(a) + Abs(b))
               IN  IF n - r * r > r THEN r + 1 ELSE r

CosTab ==
  << 10000, 9998, 9994, 9986, 9976, 9962, 9945, 9925, 9903, 9877,
     9848, 9816, 9781, 9744, 9703, 9659, 9613, 9563, 9511, 9455,
     9397, 9336, 9272, 9205, 9135, 9063, 8988, 8910, 8829, 8746,
     8660, 8572, 8480, 8387, 8290, 8192, 8090, 7986, 7880, 7771,
     7660, 7547, 7431, 7314, 7193, 7071, 6947, 6820, 6691, 6561,
     6428, 6293, 6157, 6018, 5878, 5736, 5592, 5446, 5299, 5150,
     5000, 4848, 4695, 4540, 4384, 4226, 4067, 3907, 3746, 3584,
     3420, 3256, 3090, 2924, 2756, 2588, 2419, 2250, 2079, 1908,
     1736, 1564, 1392, 1219, 1045, 872, 698, 523, 349, 175,
     0 >>

\* TRIG * cos(d degrees), TRIG * sin(d degrees), for -90 <= d <= 90
Cos(d) == CosTab[Abs(d) + 1]
Sin(d) == IF d >= 0 THEN CosTab[90 - d + 1] ELSE -CosTab[90 + d + 1]

clamp(v, a, b) == Max(a, Min(b, v))

----------------------------------------------------------------------------
(* State *)

VARIABLES
    paused,         \* let paused
    gameOver,       \* let gameOver
    leftPaddle,     \* [y]: leftPaddle.y (x, width, height never change)
    rightPaddle,    \* [y]: rightPaddle.y
    ball,           \* [x, y, speed, vx, vy]
    playerScore,
    computerScore,
    keys,           \* [ArrowUp, ArrowDown]
    scoreboard,     \* [player, computer]: textContent of the two score elements
    message,        \* [hidden, text]: messageEl's 'hidden' class and textContent
    raf,            \* number of pending requestAnimationFrame(loop) callbacks
    budget,         \* simulation steps left to explore (negative: no limit)
    last            \* history: [op, ran, point], the operation that led here,
                    \* whether its update() got past line 151, and who scored in it

vars == << paused, gameOver, leftPaddle, rightPaddle, ball, playerScore,
           computerScore, keys, scoreboard, message, raf, budget, last >>

\* the closure's variables and the page elements, as one value
Game == [ paused |-> paused, gameOver |-> gameOver,
          leftPaddle |-> leftPaddle, rightPaddle |-> rightPaddle, ball |-> ball,
          playerScore |-> playerScore, computerScore |-> computerScore,
          keys |-> keys, scoreboard |-> scoreboard, message |-> message ]

\* the variables take the fields of g
Becomes(g) ==
    /\ paused' = g.paused
    /\ gameOver' = g.gameOver
    /\ leftPaddle' = g.leftPaddle
    /\ rightPaddle' = g.rightPaddle
    /\ ball' = g.ball
    /\ playerScore' = g.playerScore
    /\ computerScore' = g.computerScore
    /\ keys' = g.keys
    /\ scoreboard' = g.scoreboard
    /\ message' = g.message

----------------------------------------------------------------------------
(* resetBall, updateScoreboard, endGame *)

\* ball.speed = 9 + Math.min(playerScore + computerScore, 12) * 0.35
ServeSpeed(p, c) == PX(BASE_SPEED) + Min(p + c, SPEED_CAP_POINTS) * SpeedPerPoint

\* mutant: the serve goes the other way
resetBall_Flipped(g, direction, angleDeg, rdir) ==
    LET speed == ServeSpeed(g.playerScore, g.computerScore)
        dir == IF direction = 0 THEN rdir ELSE -direction
    IN  [g EXCEPT !.ball = [ x |-> CenterX, y |-> CenterY, speed |-> speed,
                             vx |-> dir * RDiv(speed * Cos(angleDeg), TRIG),
                             vy |-> RDiv(speed * Sin(angleDeg), TRIG) ]]

\* mutant: ball.x is not put back to the middle
resetBall_KeepsX(g, direction, angleDeg, rdir) ==
    LET speed == ServeSpeed(g.playerScore, g.computerScore)
        dir == IF direction = 0 THEN rdir ELSE direction
    IN  [g EXCEPT !.ball = [ x |-> g.ball.x, y |-> CenterY, speed |-> speed,
                             vx |-> dir * RDiv(speed * Cos(angleDeg), TRIG),
                             vy |-> RDiv(speed * Sin(angleDeg), TRIG) ]]

\* resetBall(direction): angleDeg and rdir are the two Math.random() draws
resetBall(g, direction, angleDeg, rdir) ==
    LET speed == ServeSpeed(g.playerScore, g.computerScore)
        dir == IF direction = 0 THEN rdir ELSE direction
    IN  [g EXCEPT !.ball = [ x |-> CenterX, y |-> CenterY, speed |-> speed,
                             vx |-> dir * RDiv(speed * Cos(angleDeg), TRIG),
                             vy |-> RDiv(speed * Sin(angleDeg), TRIG) ]]

updateScoreboard(g) ==
    [g EXCEPT !.scoreboard = [player |-> g.playerScore, computer |-> g.computerScore]]

endGame(g, playerWon) ==
    [g EXCEPT !.gameOver = TRUE,
              !.paused = TRUE,
              !.message = [hidden |-> FALSE,
                           text |-> IF playerWon THEN WinText ELSE LoseText]]

----------------------------------------------------------------------------
(* update *)

\* lines 153-162: the player's paddle follows the held arrow keys
MovePlayer(g) ==
    LET up == IF g.keys.ArrowUp THEN g.leftPaddle.y - PX(PADDLE_SPEED)
              ELSE g.leftPaddle.y
        down == IF g.keys.ArrowDown THEN up + PX(PADDLE_SPEED) ELSE up
    IN  [g EXCEPT !.leftPaddle.y = clamp(down, 0, PaddleMaxY)]

\* lines 164-170: where the computer's paddle wants to be
TargetY(g) ==
    IF g.ball.vx < 0 THEN CenterY - HalfPaddle ELSE g.ball.y - HalfPaddle

\* mutant: the computer's paddle jumps to its target
MoveComputer_Jumps(g) ==
    [g EXCEPT !.rightPaddle.y = clamp(TargetY(g), 0, PaddleMaxY)]

\* lines 172-179: the computer's paddle moves toward its target
MoveComputer(g) ==
    LET diff == TargetY(g) - g.rightPaddle.y
        maxMove == PX(MAX_SPEED)
        moved == IF Abs(diff) > maxMove
                 THEN g.rightPaddle.y + Sign(diff) * maxMove
                 ELSE g.rightPaddle.y + diff
    IN  [g EXCEPT !.rightPaddle.y = clamp(moved, 0, PaddleMaxY)]

\* mutant: a wall turns the ball round where it is
MoveBall_NoClamp(b) ==
    LET x == b.x + b.vx
        y == b.y + b.vy
    IN  IF y - PX(RADIUS) <= 0 \/ y + PX(RADIUS) >= PX(HEIGHT)
        THEN [b EXCEPT !.x = x, !.y = y, !.vy = -b.vy]
        ELSE [b EXCEPT !.x = x, !.y = y]

\* lines 181-192: translation, then the top and bottom walls
MoveBall(b) ==
    LET x == b.x + b.vx
        y == b.y + b.vy
    IN  IF y - PX(RADIUS) <= 0
        THEN [b EXCEPT !.x = x, !.y = PX(RADIUS), !.vy = -b.vy]
        ELSE IF y + PX(RADIUS) >= PX(HEIGHT)
        THEN [b EXCEPT !.x = x, !.y = PX(HEIGHT) - PX(RADIUS), !.vy = -b.vy]
        ELSE [b EXCEPT !.x = x, !.y = y]

\* paddleCollision(paddle): the paddle's corner is (px, py)
paddleCollision(b, px, py) ==
    LET closestX == clamp(b.x, px, px + PX(PADDLE_WIDTH))
        closestY == clamp(b.y, py, py + PX(PADDLE_HEIGHT))
        dx == b.x - closestX
        dy == b.y - closestY
    IN  dx * dx + dy * dy <= PX(RADIUS) * PX(RADIUS)

\* relativeY * 60 degrees, to the nearest whole degree
BounceAngle(b, py) == RDiv((b.y - (py + HalfPaddle)) * MAX_ANGLE, HalfPaddle)

\* mutant: the bounce adds no speed
reflectFromPaddle_NoGain(b, py, dir) ==
    LET angle == BounceAngle(b, py)
        currentSpeed == Hypot(b.vx, b.vy)
        vx == dir * RDiv(currentSpeed * Cos(angle), TRIG)
        vy == RDiv(currentSpeed * Sin(angle), TRIG)
    IN  [b EXCEPT !.vx = IF Abs(vx) < minHorizontal THEN dir * minHorizontal ELSE vx,
                  !.vy = vy]

\* mutant: the ball leaves toward the paddle it hit
reflectFromPaddle_Toward(b, py, dir) ==
    LET angle == BounceAngle(b, py)
        currentSpeed == Hypot(b.vx, b.vy) + speedIncrease
        vx == -dir * RDiv(currentSpeed * Cos(angle), TRIG)
        vy == RDiv(currentSpeed * Sin(angle), TRIG)
    IN  [b EXCEPT !.vx = IF Abs(vx) < minHorizontal THEN -dir * minHorizontal ELSE vx,
                  !.vy = vy]

\* reflectFromPaddle(paddle): py is paddle.y, dir is 1 for leftPaddle, else -1
reflectFromPaddle(b, py, dir) ==
    LET angle == BounceAngle(b, py)
        currentSpeed == Hypot(b.vx, b.vy) + speedIncrease
        vx == dir * RDiv(currentSpeed * Cos(angle), TRIG)
        vy == RDiv(currentSpeed * Sin(angle), TRIG)
    IN  [b EXCEPT !.vx = IF Abs(vx) < minHorizontal THEN dir * minHorizontal ELSE vx,
                  !.vy = vy]

HitsLeft(g) == g.ball.vx < 0 /\ paddleCollision(g.ball, PX(LEFT_X), g.leftPaddle.y)
HitsRight(g) == g.ball.vx > 0 /\ paddleCollision(g.ball, RightX, g.rightPaddle.y)

\* lines 194-202
Collide(g) ==
    IF HitsLeft(g)
    THEN [g EXCEPT !.ball = reflectFromPaddle(
                      [g.ball EXCEPT !.x = PX(LEFT_X) + PX(PADDLE_WIDTH) + PX(RADIUS)],
                      g.leftPaddle.y, 1)]
    ELSE IF HitsRight(g)
    THEN [g EXCEPT !.ball = reflectFromPaddle(
                      [g.ball EXCEPT !.x = RightX - PX(RADIUS)],
                      g.rightPaddle.y, -1)]
    ELSE g

ExitsLeft(g) == g.ball.x < -PX(RADIUS)
ExitsRight(g) == g.ball.x > PX(WIDTH) + PX(RADIUS)

\* mutant: a ball leaving on the left gives a point to both sides
ScoreCheck_BothScore(g, angleDeg) ==
    IF ExitsLeft(g)
    THEN LET s == updateScoreboard([g EXCEPT !.computerScore = @ + 1,
                                             !.playerScore = @ + 1])
         IN  IF s.computerScore >= WIN_SCORE THEN endGame(s, FALSE)
             ELSE resetBall(s, 1, angleDeg, 1)
    ELSE IF ExitsRight(g)
    THEN LET s == updateScoreboard([g EXCEPT !.playerScore = @ + 1])
         IN  IF s.playerScore >= WIN_SCORE THEN endGame(s, TRUE)
             ELSE resetBall(s, -1, angleDeg, 1)
    ELSE g

\* lines 204-223: angleDeg is the draw resetBall makes
ScoreCheck(g, angleDeg) ==
    IF ExitsLeft(g)
    THEN LET s == updateScoreboard([g EXCEPT !.computerScore = @ + 1])
         IN  IF s.computerScore >= WIN_SCORE THEN endGame(s, FALSE)
             ELSE resetBall(s, 1, angleDeg, 1)
    ELSE IF ExitsRight(g)
    THEN LET s == updateScoreboard([g EXCEPT !.playerScore = @ + 1])
         IN  IF s.playerScore >= WIN_SCORE THEN endGame(s, TRUE)
             ELSE resetBall(s, -1, angleDeg, 1)
    ELSE g

\* the state in which update() checks the score
BeforeScore(g) ==
    LET m == MoveComputer(MovePlayer(g))
    IN  Collide([m EXCEPT !.ball = MoveBall(m.ball)])

\* mutant: update() has no guard
Runs_Always(g) == TRUE

\* mutant: line 151 tests paused alone
Runs_PausedOnly(g) == ~g.paused

\* mutant: line 151 tests gameOver alone
Runs_OverOnly(g) == ~g.gameOver

\* line 151: update() goes on
Runs(g) == ~(g.paused \/ g.gameOver)

\* who scores in update(): "computer", "player" or "none"
Point(g) ==
    IF ~Runs(g) THEN "none"
    ELSE IF ExitsLeft(BeforeScore(g)) THEN "computer"
    ELSE IF ExitsRight(BeforeScore(g)) THEN "player"
    ELSE "none"

\* the history after an operation that does not call update()
Did(op) == last' = [op |-> op, ran |-> FALSE, point |-> "none"]

update(g, angleDeg) ==
    IF Runs(g) THEN ScoreCheck(BeforeScore(g), angleDeg) ELSE g

----------------------------------------------------------------------------
(* The frame loop *)

\* mutant: loop() requests no further callback
Loop_Stops(g, angleDeg, pending, op) ==
    LET u == update(g, angleDeg)
    IN  /\ Becomes(u)
        /\ raf' = pending
        /\ budget' = IF Runs(g) /\ budget > 0 THEN budget - 1 ELSE budget
        /\ last' = [op |-> op, ran |-> Runs(g), point |-> Point(g)]

\* loop(): update(); draw(); if (!gameOver) requestAnimationFrame(loop)
\* pending is the number of callbacks pending when loop() is entered
\* op names the caller for the history
Loop(g, angleDeg, pending, op) ==
    LET u == update(g, angleDeg)
    IN  /\ Becomes(u)
        /\ raf' = IF u.gameOver THEN pending ELSE pending + 1
        /\ budget' = IF Runs(g) /\ budget > 0 THEN budget - 1 ELSE budget
        /\ last' = [op |-> op, ran |-> Runs(g), point |-> Point(g)]

\* loop() may be entered: the step budget allows the update, and the
\* callback it requests fits
MayLoop(g, pending) ==
    /\ Runs(g) => budget # 0
    /\ g.gameOver \/ pending < MaxPending

\* the host fires one pending animation-frame callback
Tick ==
    /\ raf > 0
    /\ MayLoop(Game, raf - 1)
    /\ \E a \in AngleChoices : Loop(Game, a, raf - 1, "tick")

----------------------------------------------------------------------------
(* Input handlers *)

\* the keydown listener
keydown(g, code) ==
    IF code \in {"ArrowUp", "ArrowDown"}
    THEN [g EXCEPT !.keys[code] = TRUE]
    ELSE IF code = "Space"
    THEN [g EXCEPT !.paused = ~g.paused,
                   !.message = [hidden |-> g.paused,
                                text |-> IF ~g.paused THEN "Paused" ELSE ""]]
    ELSE g

\* mutant: the resume test of line 271 leaves out gameOver
Resumes_IgnoresOver(g, code) == code = "Space" /\ g.paused

\* lines 271-274: the Space branch calls requestAnimationFrame(loop)
Resumes(g, code) == code = "Space" /\ g.paused /\ ~g.gameOver

KeyDown(code) ==
    /\ Resumes(Game, code) => raf < MaxPending
    /\ Becomes(keydown(Game, code))
    /\ raf' = IF Resumes(Game, code) THEN raf + 1 ELSE raf
    /\ Did("keydown")
    /\ UNCHANGED budget

\* the keyup listener
keyup(g, code) ==
    IF code \in {"ArrowUp", "ArrowDown"} THEN [g EXCEPT !.keys[code] = FALSE] ELSE g

KeyUp(code) ==
    /\ Becomes(keyup(Game, code))
    /\ Did("keyup")
    /\ UNCHANGED << raf, budget >>

\* (clientY - rect.top) * (canvas.height / rect.height)
CanvasY(clientY, top, rectHeight) == RDiv(PX(clientY - top) * HEIGHT, rectHeight)

\* mutant: the paddle takes the pointer's position as it comes
pointermove_Unclamped(g, clientY, top, rectHeight) ==
    [g EXCEPT !.leftPaddle.y = CanvasY(clientY, top, rectHeight) - HalfPaddle]

\* the body shared by the mousemove and touchmove listeners
pointermove(g, clientY, top, rectHeight) ==
    [g EXCEPT !.leftPaddle.y =
        clamp(CanvasY(clientY, top, rectHeight) - HalfPaddle, 0, PaddleMaxY)]

MouseMove(clientY, top, rectHeight) ==
    /\ Becomes(pointermove(Game, clientY, top, rectHeight))
    /\ Did("mousemove")
    /\ UNCHANGED << raf, budget >>

\* e.touches[0].clientY
TouchMove(clientY, top, rectHeight) ==
    /\ Becomes(pointermove(Game, clientY, top, rectHeight))
    /\ Did("touchmove")
    /\ UNCHANGED << raf, budget >>

----------------------------------------------------------------------------
(* window.__pong *)

\* window.__pong.resetBall(direction)
ResetBallCall(direction) ==
    /\ \E a \in AngleChoices, d \in DirChoices : Becomes(resetBall(Game, direction, a, d))
    /\ Did("resetBall")
    /\ UNCHANGED << raf, budget >>

\* start() up to its call of loop()
start(g, angleDeg, rdir) ==
    updateScoreboard([resetBall(g, 0, angleDeg, rdir)
                         EXCEPT !.playerScore = 0, !.computerScore = 0])

\* window.__pong.start()
StartCall ==
    /\ MayLoop(Game, raf)
    /\ \E a \in AngleChoices, d \in DirChoices, a2 \in AngleChoices :
          Loop(start(Game, a, d), a2, raf, "start")

----------------------------------------------------------------------------
(* Kick-off and the specifications *)

\* the state the script leaves when it has run: lines 20-63 and 310-313
KickOff(a, d) ==
    LET g0 == [ paused |-> FALSE, gameOver |-> FALSE,
                leftPaddle |-> [y |-> PaddleMaxY \div 2],
                rightPaddle |-> [y |-> PaddleMaxY \div 2],
                ball |-> [x |-> CenterX, y |-> CenterY, speed |-> 0, vx |-> 0, vy |-> 0],
                playerScore |-> 0, computerScore |-> 0,
                keys |-> [ArrowUp |-> FALSE, ArrowDown |-> FALSE],
                scoreboard |-> [player |-> 0, computer |-> 0],
                message |-> [hidden |-> TRUE, text |-> ""] ]
    IN  updateScoreboard(resetBall(g0, 0, a, d))

\* the variables hold the fields of g
Holds(g) ==
    /\ paused = g.paused
    /\ gameOver = g.gameOver
    /\ leftPaddle = g.leftPaddle
    /\ rightPaddle = g.rightPaddle
    /\ ball = g.ball
    /\ playerScore = g.playerScore
    /\ computerScore = g.computerScore
    /\ keys = g.keys
    /\ scoreboard = g.scoreboard
    /\ message = g.message

Started ==
    /\ \E a \in AngleChoices, d \in DirChoices : Holds(KickOff(a, d))
    /\ raf = 1
    /\ last = [op |-> "kickoff", ran |-> FALSE, point |-> "none"]

Init == Started /\ budget = MaxSteps

Key == \E code \in KeyCodes : KeyDown(code) \/ KeyUp(code)

Pointer ==
    \E clientY \in ClientYs, top \in RectTops, h \in RectHeights :
        MouseMove(clientY, top, h) \/ TouchMove(clientY, top, h)

Console == StartCall \/ \E direction \in {-1, 0, 1} : ResetBallCall(direction)

Next == Tick \/ Key \/ Pointer

\* every interleaving of frames and input events over the first MaxSteps
\* simulation steps
Spec == Init /\ [][Next]_vars

MatchInit == Started /\ budget = -1

\* whole matches: frames and the pause key at any time; the arrow keys, the
\* pointer and the console once the match is over
MatchNext ==
    \/ Tick
    \/ KeyDown("Space")
    \/ gameOver /\ (Key \/ Pointer \/ Console)

\* the host goes on firing the callbacks that were requested, also once the
\* match is over
MatchSpec == MatchInit /\ [][MatchNext]_vars /\ WF_vars(gameOver /\ Tick)

\* ENABLED <<Tick>>_vars, written out: a callback is pending, loop() may be
\* entered, and the callback changes the state. It always does while the
\* match runs (the ball moves) and when it is over (one callback fewer is
\* pending); while paused it changes nothing but the history.
TickEnabled ==
    /\ raf > 0
    /\ MayLoop(Game, raf - 1)
    /\ (paused /\ ~gameOver) => last # [op |-> "tick", ran |-> FALSE, point |-> "none"]

\* whole matches in which the host fires every callback that stays pending:
\* the second conjunct is WF_vars(Tick) with its ENABLED written out
LoopSpec ==
    /\ MatchInit /\ [][MatchNext]_vars
    /\ []<>(~TickEnabled) \/ []<><<Tick>>_vars

----------------------------------------------------------------------------
(* Vocabulary of the claims *)

Running == ~paused /\ ~gameOver
Space == KeyDown("Space")

\* ball position and velocity, both paddles, both scores
Entities == << ball.x, ball.y, ball.vx, ball.vy, leftPaddle.y, rightPaddle.y,
               playerScore, computerScore >>

\* a frame callback in which update() got past its guard
Simulates == Tick /\ Runs(Game)

\* a point was scored in the last operation and the match goes on
JustScored(side) == last.point = side /\ ~gameOver

----------------------------------------------------------------------------
(* C1: win condition *)

\* C1: a step in which a score reaches WIN_SCORE sets gameOver in that step;
\* once gameOver holds, a frame callback leaves the ball's position and
\* velocity, both paddles and both scores as they were; and neither score
\* ever exceeds WIN_SCORE.
C1_WinFreezes ==
    [][ /\ (playerScore' >= WIN_SCORE /\ playerScore < WIN_SCORE) => gameOver'
        /\ (computerScore' >= WIN_SCORE /\ computerScore < WIN_SCORE) => gameOver'
        /\ (gameOver /\ Tick) => UNCHANGED Entities
        /\ playerScore' <= WIN_SCORE /\ computerScore' <= WIN_SCORE ]_vars

\* the match is over at 10 points and a later frame callback has run update()
C1_Witness ==
    /\ gameOver
    /\ computerScore = WIN_SCORE
    /\ last.op = "tick" /\ ~last.ran

----------------------------------------------------------------------------
(* C2: pause scenario *)

\* C2: Space while Running pauses the match; a frame callback while paused
\* leaves the ball, both paddles and both scores as they were; Space while
\* Paused makes the match Running again, and a frame callback of a
\* Running match moves the ball.
C2_PauseFreezes ==
    [][ /\ (Running /\ Space) => (paused' /\ ~gameOver')
        /\ (paused /\ Tick) => UNCHANGED Entities
        /\ (paused /\ ~gameOver /\ Space) => (~paused' /\ ~gameOver')
        /\ (Running /\ Tick) => (ball'.x # ball.x \/ ball'.y # ball.y) ]_vars

\* Running with a second callback pending, which only a resume requests,
\* and the last frame callback has simulated
C2_Witness ==
    /\ Running
    /\ raf >= 2
    /\ last.op = "tick" /\ last.ran

----------------------------------------------------------------------------
(* C3: the pause key while the match is over *)

\* C3: Space pressed while gameOver holds changes nothing: the paused flag,
\* the message (text and visibility) and the pending frame callbacks are
\* after the key press what they were before it.
C3_SpaceIgnoredWhenOver ==
    [][ (gameOver /\ Space) => UNCHANGED << paused, message, raf >> ]_vars

----------------------------------------------------------------------------
(* C4, C5: frame callbacks and pausing *)

\* C4: loop() run while Paused requests no further callback, so once the
\* callback that was pending when the match was paused has fired, none is
\* pending for as long as the match stays Paused.
C4_NoCallbackWhilePaused ==
    [][ (paused /\ ~gameOver /\ Tick) => (raf' = raf - 1) ]_vars

\* C5: at most one frame callback is pending at any time.
C5_OnePendingCallback == raf <= 1

----------------------------------------------------------------------------
(* C6: Over is terminal *)

\* C6: once gameOver is true it stays true under every operation, no
\* operation adds a frame callback while it is true, and the callbacks
\* pending when the match ended all fire, after which none is pending again.
C6_OverIsTerminal ==
    /\ [][ gameOver => (gameOver' /\ raf' <= raf) ]_vars
    /\ gameOver ~> [](raf = 0)

\* the match is over, start() has been called since, and nothing is pending
C6_Witness ==
    /\ gameOver
    /\ raf = 0
    /\ last.op = "start"

----------------------------------------------------------------------------
(* C7: the scores *)

\* C7: each score is a non-negative integer; no operation but start()
\* lowers a score, and start() sets both to 0; a frame callback raises at
\* most one of the two scores, by exactly 1.
C7_ScoresMonotone ==
    [][ /\ playerScore' \in Nat /\ computerScore' \in Nat
        /\ (playerScore' < playerScore \/ computerScore' < computerScore)
              => (last'.op = "start" /\ playerScore' = 0 /\ computerScore' = 0)
        /\ Tick => \/ UNCHANGED << playerScore, computerScore >>
                   \/ playerScore' = playerScore + 1 /\ UNCHANGED computerScore
                   \/ computerScore' = computerScore + 1 /\ UNCHANGED playerScore
      ]_vars

\* a finished match (one side had 10 points) whose scores start() has put to 0
C7_Witness ==
    /\ gameOver
    /\ last.op = "start"
    /\ playerScore = 0 /\ computerScore = 0
    /\ scoreboard = [player |-> 0, computer |-> 0]

----------------------------------------------------------------------------
(* C8, C9: scoring and the serve that follows *)

\* C8: an update() whose ball ends beyond the left edge by more than its
\* radius, with the computer below 9 points, gives the computer exactly one
\* point and the player none, and puts the ball back in the middle with
\* vx > 0; beyond the right edge, the player gets the point and vx < 0; and
\* an update() that starts from the ball in the middle scores nothing.
C8_ScoresOnce ==
    [][ Simulates =>
          /\ (ExitsLeft(BeforeScore(Game)) /\ computerScore < WIN_SCORE - 1)
                => /\ computerScore' = computerScore + 1
                   /\ playerScore' = playerScore
                   /\ ball'.x = CenterX /\ ball'.y = CenterY
                   /\ ball'.vx > 0
          /\ (ExitsRight(BeforeScore(Game)) /\ playerScore < WIN_SCORE - 1)
                => /\ playerScore' = playerScore + 1
                   /\ computerScore' = computerScore
                   /\ ball'.x = CenterX /\ ball'.y = CenterY
                   /\ ball'.vx < 0
          /\ (ball.x = CenterX /\ ball.y = CenterY)
                => UNCHANGED << playerScore, computerScore >>
      ]_vars

\* both sides have scored, the player just now, and the match goes on
C8_Witness ==
    /\ JustScored("player")
    /\ computerScore >= 1
    /\ ball.x = CenterX

\* C9 as claimed: after a non-final point the ball is served toward the side
\* that lost it: toward the left paddle (vx < 0) when the computer scored,
\* toward the right paddle (vx > 0) when the player scored.
C9_ServeTowardLoser ==
    /\ JustScored("computer") => ball.vx < 0
    /\ JustScored("player") => ball.vx > 0

\* C9 as amended: after a non-final point the ball is served toward the side
\* that won it: toward the right paddle (vx > 0) when the computer scored,
\* toward the left paddle (vx < 0) when the player scored.
C9_ServeTowardScorer ==
    /\ JustScored("computer") => ball.vx > 0
    /\ JustScored("player") => ball.vx < 0

\* the computer has just scored a point that does not end the match
C9_Witness ==
    /\ JustScored("computer")
    /\ computerScore \in 1 .. (WIN_SCORE - 1)
    /\ last.op = "tick"

----------------------------------------------------------------------------
(* C10: the paddles stay on the playfield *)

\* C10: in every reachable state both paddles' y lie in [0, HEIGHT - PADDLE_HEIGHT].
C10_PaddlesInRange ==
    /\ leftPaddle.y \in 0 .. PaddleMaxY
    /\ rightPaddle.y \in 0 .. PaddleMaxY

\* a mouse event far below the canvas has put the left paddle on its lower stop
C10_Witness ==
    /\ last.op = "mousemove"
    /\ leftPaddle.y = PaddleMaxY

----------------------------------------------------------------------------
(* C11, C12: start() and the serve speed *)

\* C11: when start() has returned both scores are 0, the match is Running
\* and a frame callback is pending, so that the next simulation step
\* advances the ball.
C11_StartBeginsMatch ==
    last.op = "start" =>
        /\ playerScore = 0 /\ computerScore = 0
        /\ Running
        /\ raf >= 1

\* a serve has just been made: by the kick-off, by start(), by
\* window.__pong.resetBall, or by update() after a point that was not the last
Served ==
    \/ last.op \in {"kickoff", "start", "resetBall"}
    \/ JustScored("player")
    \/ JustScored("computer")

\* C12: right after every serve ball.speed is 9 + 0.35 * min(playerScore +
\* computerScore, 12) on the scores in force when the operation has completed;
\* after start() that is 9.
C12_ServeSpeedRule ==
    Served => ball.speed = ServeSpeed(playerScore, computerScore)

----------------------------------------------------------------------------
(* C13, C14, C15: speed and velocity *)

\* |(vx, vy)|
Magnitude(b) == Hypot(b.vx, b.vy)

\* the units by which a rounded product, and a magnitude taken from two
\* rounded components, may be off
Rounding == 1

\* the state in which update() tests the paddles (lines 195, 199)
AtCollision(g) ==
    LET m == MoveComputer(MovePlayer(g))
    IN  [m EXCEPT !.ball = MoveBall(m.ball)]

\* a frame callback in which update() reflects the ball from the left paddle
LeftHit == Simulates /\ HitsLeft(AtCollision(Game))

\* the same, from the right paddle (the else branch of line 199)
RightHit == Simulates /\ ~HitsLeft(AtCollision(Game)) /\ HitsRight(AtCollision(Game))

PaddleHit == LeftHit \/ RightHit
\* C13: in every reachable state ball.speed is the magnitude of (vx, vy),
\* up to rounding.
C13_SpeedIsMagnitude ==
    Abs(Magnitude(ball) - ball.speed) <= Rounding

\* C14: a paddle bounce raises the magnitude of (vx, vy) by at least 0.8 (up
\* to rounding), and an update() without a paddle bounce and without a point
\* leaves it as it was: vx is unchanged and vy at most changes its sign, at
\* a wall.
C14_BounceSpeedsUp ==
    [][ Simulates =>
          IF HitsLeft(AtCollision(Game)) \/ HitsRight(AtCollision(Game))
          THEN Magnitude(ball') >= Magnitude(ball) + speedIncrease - Rounding
          ELSE Point(Game) = "none"
                  => (ball'.vx = ball.vx /\ Abs(ball'.vy) = Abs(ball.vy)) ]_vars

\* the ball has just bounced off the left paddle and is faster than it was
\* served
C14_Witness ==
    /\ last.op = "tick" /\ last.ran /\ last.point = "none"
    /\ ball.x = PX(LEFT_X) + PX(PADDLE_WIDTH) + PX(RADIUS)
    /\ ball.vx > 0
    /\ Magnitude(ball) >= ball.speed + speedIncrease - Rounding

\* C15: after a paddle bounce |vx| >= 2.5 and vx points away from the paddle
\* that was hit; and vx is never 0.
C15_HorizontalFloor ==
    /\ [][ /\ LeftHit => ball'.vx >= minHorizontal
           /\ RightHit => ball'.vx <= -minHorizontal ]_vars
    /\ [](ball.vx # 0)

\* the ball has just bounced off the right paddle
C15_Witness ==
    /\ last.op = "tick" /\ last.ran
    /\ ball.x = RightX - PX(RADIUS)
    /\ ball.vx <= -minHorizontal

----------------------------------------------------------------------------
(* C16: the relative intersection *)

\* ball.y - (paddle.y + paddle.height / 2) as reflectFromPaddle reads it
Offset(g, py) == g.ball.y - (py + HalfPaddle)

\* C16: on every paddle hit |ball.y - (paddle.y + height / 2)| <= height / 2,
\* so that relativeY lies in [-1, 1] and the bounce angle within 60 degrees.
C16_IntersectBounded ==
    [][ /\ LeftHit => Abs(Offset(AtCollision(Game), AtCollision(Game).leftPaddle.y))
                         <= HalfPaddle
        /\ RightHit => Abs(Offset(AtCollision(Game), AtCollision(Game).rightPaddle.y))
                         <= HalfPaddle ]_vars

----------------------------------------------------------------------------
(* C17: the computer's paddle *)

\* the target as the claim states it, from the ball before it is translated
ClaimedTarget ==
    IF ball.vx > 0 THEN ball.y - HalfPaddle ELSE CenterY - HalfPaddle

\* C17 as claimed: in every update() the right paddle moves by at most 10;
\* by exactly 10 toward the target when the target is more than 10 away, and
\* onto the target, clamped to the legal range, otherwise.
C17_PursuitExactCap ==
    [][ Simulates =>
          LET d == ClaimedTarget - rightPaddle.y
          IN  /\ Abs(rightPaddle'.y - rightPaddle.y) <= PX(MAX_SPEED)
              /\ Abs(d) > PX(MAX_SPEED)
                    => rightPaddle'.y = rightPaddle.y + Sign(d) * PX(MAX_SPEED)
              /\ Abs(d) <= PX(MAX_SPEED)
                    => rightPaddle'.y = clamp(ClaimedTarget, 0, PaddleMaxY)
      ]_vars

\* C17 as amended: in every update() the right paddle moves by at most 10;
\* toward the target by 10 when the target is more than 10 away, and onto the
\* target otherwise, and in both cases the result is clamped to the legal
\* range, so that the move is shorter than 10 where the range ends.
C17_PursuitClamped ==
    [][ Simulates =>
          LET d == ClaimedTarget - rightPaddle.y
          IN  /\ Abs(rightPaddle'.y - rightPaddle.y) <= PX(MAX_SPEED)
              /\ Abs(d) > PX(MAX_SPEED)
                    => rightPaddle'.y = clamp(rightPaddle.y + Sign(d) * PX(MAX_SPEED),
                                              0, PaddleMaxY)
              /\ Abs(d) <= PX(MAX_SPEED)
                    => rightPaddle'.y = clamp(ClaimedTarget, 0, PaddleMaxY)
      ]_vars

\* the computer's paddle has moved for several frames and stands on a stop
\* of its range with the ball coming toward it
C17_Witness ==
    /\ last.op = "tick" /\ last.ran
    /\ rightPaddle.y \in {0, PaddleMaxY}
    /\ ball.vx > 0
    /\ ball.x > CenterX

----------------------------------------------------------------------------
(* C18: the loop does not stall *)

----------------------------------------------------------------------------
(* C19: the walls *)

\* C19: in every reachable state ball.y lies in [radius, HEIGHT - radius];
\* an update() whose translation brings the ball's edge to or past the top
\* or the bottom puts y onto that boundary and negates vy once (a paddle
\* bounce in the same update then sets vy anew); otherwise y is the
\* translated y and the walls leave vy alone.
C19_WallContainment ==
    /\ [](ball.y \in PX(RADIUS) .. (PX(HEIGHT) - PX(RADIUS)))
    /\ [][ (Simulates /\ Point(Game) = "none") =>
             LET y == ball.y + ball.vy
             IN  IF y - PX(RADIUS) <= 0
                 THEN /\ ball'.y = PX(RADIUS)
                      /\ ~PaddleHit => ball'.vy = -ball.vy
                 ELSE IF y + PX(RADIUS) >= PX(HEIGHT)
                 THEN /\ ball'.y = PX(HEIGHT) - PX(RADIUS)
                      /\ ~PaddleHit => ball'.vy = -ball.vy
                 ELSE /\ ball'.y = y
                      /\ ~PaddleHit => ball'.vy = ball.vy
          ]_vars

\* the ball has just bounced off the top wall and moves down
C19_Witness ==
    /\ last.op = "tick" /\ last.ran /\ last.point = "none"
    /\ ball.y = PX(RADIUS)
    /\ ball.vy > 0

----------------------------------------------------------------------------
(* C20: input events while the match is suspended *)

\* the step is a frame callback, a key event or a pointer event (every
\* operation records its name in the history)
FrameOrInput == last'.op \in {"tick", "keydown", "keyup", "mousemove", "touchmove"}

\* C20: while the match is Paused or Over, no frame callback, key event or
\* pointer event changes the ball's position or velocity, the right paddle's
\* y or a score; leftPaddle.y changes only by a mouse or touch move, which
\* sets it, clamped, whatever paused and gameOver are.
C20_SuspendedFrame ==
    [][ ((paused \/ gameOver) /\ FrameOrInput) =>
          /\ UNCHANGED << ball.x, ball.y, ball.vx, ball.vy, rightPaddle.y,
                          playerScore, computerScore >>
          /\ leftPaddle'.y # leftPaddle.y => last'.op \in {"mousemove", "touchmove"}
          /\ leftPaddle'.y \in 0 .. PaddleMaxY
      ]_vars

\* the match is over and a touch has moved the left paddle to its upper stop
C20_Witness ==
    /\ gameOver
    /\ last.op = "touchmove"
    /\ leftPaddle.y = 0

=============================================================================
